---- MODULE Spec2Model ----
(***************************************************************************)
(* Model of bird.py: a bot that once a day composes a prompt, has an image *)
(* generated, posts it to Mastodon and mails a copy, with a 24-hour        *)
(* cooldown after a failed cycle.                                          *)
(*                                                                         *)
(* The wall clock is counted in ticks of TickSeconds seconds (the shortest *)
(* sleep of the program).  A datetime is a record [day, hour, sub] where   *)
(* sub is the part of the hour below the hour (minute, second and          *)
(* microsecond together), counted in ticks.                                *)
(***************************************************************************)
EXTENDS Integers, Sequences, FiniteSets, TLC

VARIABLES
    pc,          \* position of main_loop
    now,         \* the wall clock, in ticks
    marker,      \* content of ERROR_FILE
    baseExists,  \* os.path.exists(PROMPT_BASE_FILE)
    holidaysExists, \* os.path.exists(HOLIDAYS_FILE)
    holidays,    \* rows of HOLIDAYS_FILE
    promptFile,  \* content of PROMPT_FILE
    image_prompt,  \* local of main_loop
    holiday_name,  \* local of main_loop
    exc,         \* the exception in flight in main_loop, "none" when there is none
    calls,       \* the external calls of the current iteration, in order
    lastErrAt,   \* clock of the last record_error, -1 when there was none
    posts,       \* <<clock of the successful status post before the last, clock of the last>>
    probe        \* the last direct call of a function: its arguments and result

vars == <<pc, now, marker, baseExists, holidaysExists, holidays, promptFile,
          image_prompt, holiday_name, exc, calls, lastErrAt, posts, probe>>

----------------------------------------------------------------------------
(* Program constants *)

TickSeconds == 600
HourSeconds == 3600
HoursPerDay == 24
TargetHour == 9

(* Bounds of the model *)

MaxDays == 2
MaxOvershoot == 1
MaxCallTicks == 1
StartDay == 1

SubPerHour == HourSeconds \div TickSeconds
TicksPerDay == HoursPerDay * SubPerHour
MaxTime == (StartDay + MaxDays) * TicksPerDay

----------------------------------------------------------------------------
(* datetime *)

\* datetime.now(): the clock as a naive local datetime
DatetimeNow(t) ==
    [day |-> t \div TicksPerDay,
     hour |-> (t % TicksPerDay) \div SubPerHour,
     sub |-> t % SubPerHour]

\* now.replace(hour=h, minute=0, second=0, microsecond=0)
Replace(dt, h) == [dt EXCEPT !.hour = h, !.sub = 0]

\* dt + timedelta(days=n)
AddDays(dt, n) == [dt EXCEPT !.day = @ + n]

\* dt + timedelta(hours=h)
AddHours(dt, h) ==
    [dt EXCEPT !.day = @ + (dt.hour + h) \div HoursPerDay,
               !.hour = (dt.hour + h) % HoursPerDay]

\* a < b on datetimes
Before(a, b) ==
    \/ a.day < b.day
    \/ a.day = b.day /\ a.hour < b.hour
    \/ a.day = b.day /\ a.hour = b.hour /\ a.sub < b.sub

\* (a - b).total_seconds()
TotalSeconds(a, b) ==
    (((a.day - b.day) * HoursPerDay + (a.hour - b.hour)) * SubPerHour
        + (a.sub - b.sub)) * TickSeconds

----------------------------------------------------------------------------
(* File contents.  A text is a record: kind "blank" is the empty text,     *)
(* "junk" a text that is no timestamp, "iso" a text in the form            *)
(* datetime.isoformat() writes; pad says whether white space surrounds it. *)

NoFile == [exists |-> FALSE, pad |-> FALSE, kind |-> "blank", day |-> 0, hour |-> 0, sub |-> 0]

Text(kind, pad, day, hour, sub) ==
    [exists |-> TRUE, pad |-> pad, kind |-> kind, day |-> day, hour |-> hour, sub |-> sub]

\* datetime.isoformat()
Isoformat(dt) == Text("iso", FALSE, dt.day, dt.hour, dt.sub)

\* str.strip()
Strip(text) == [text EXCEPT !.pad = FALSE]

\* datetime.fromisoformat(content) raises ValueError
RaisesValueError(content) ==
    \/ content.kind # "iso"
    \/ content.pad
    \/ content.hour >= HoursPerDay
    \/ content.sub >= SubPerHour

\* datetime.fromisoformat(content)
FromIsoformat(content) == [day |-> content.day, hour |-> content.hour, sub |-> content.sub]

----------------------------------------------------------------------------
(* Time Gate and Failure Cooldown *)

time_until_next_run_strict(nowdt, target_hour) ==
    LET target_time == Replace(nowdt, target_hour)
        rolled == IF Before(target_time, nowdt) THEN AddDays(target_time, 1) ELSE target_time
    IN TotalSeconds(rolled, nowdt)

time_until_next_run(nowdt, target_hour) ==
    LET target_time == Replace(nowdt, target_hour)
        rolled == IF ~Before(nowdt, target_time) THEN AddDays(target_time, 1) ELSE target_time
    IN TotalSeconds(rolled, nowdt)

should_retry_without_window(file, nowdt) ==
    IF file.exists
    THEN LET content == Strip(file)
         IN IF content.kind = "blank" THEN TRUE
            ELSE IF RaisesValueError(content) THEN TRUE
            ELSE IF Before(nowdt, FromIsoformat(content)) THEN FALSE
            ELSE TRUE
    ELSE TRUE

should_retry_never_expiring(file, nowdt) ==
    IF file.exists
    THEN LET content == Strip(file)
         IN IF content.kind = "blank" THEN TRUE
            ELSE IF RaisesValueError(content) THEN TRUE
            ELSE FALSE
    ELSE TRUE

should_retry_inclusive(file, nowdt) ==
    IF file.exists
    THEN LET content == Strip(file)
             expiry == AddHours(FromIsoformat(content), HoursPerDay)
         IN IF content.kind = "blank" THEN TRUE
            ELSE IF RaisesValueError(content) THEN TRUE
            ELSE IF Before(nowdt, expiry) \/ nowdt = expiry THEN FALSE
            ELSE TRUE
    ELSE TRUE

should_retry(file, nowdt) ==
    IF file.exists
    THEN LET content == Strip(file)
         IN IF content.kind = "blank" THEN TRUE
            ELSE IF RaisesValueError(content) THEN TRUE
            ELSE IF Before(nowdt, AddHours(FromIsoformat(content), HoursPerDay)) THEN FALSE
            ELSE TRUE
    ELSE TRUE

record_error_ctime(nowdt) == Text("junk", FALSE, 0, 0, 0)

record_error(nowdt) == Isoformat(nowdt)

\* time.sleep(seconds) ends at one of these clock values
SleepEnds(t, seconds) == { t + seconds \div TickSeconds + o : o \in 0..MaxOvershoot }

----------------------------------------------------------------------------
(* Prompt Composer.  A text is a sequence of its pieces. *)

BasePrompt == <<"A bird.">>

None == "None"

\* now.strftime('%-m/%-d/%Y'): the calendar date, the time of day dropped
Strftime(dt) == dt.day

\* str.lower() of the Type column
Lower(type) ==
    CASE type = "Holiday" -> "holiday"
      [] type = "Observance" -> "observance"
      [] OTHER -> type

Row(date, name, type) == [Date |-> date, Name |-> name, Type |-> type]

\* the rows csv.DictReader yields whose Date is today
Matches(table, today) == SelectSeq(table, LAMBDA row : row.Date = today)

\* the f-string of line 187
HolidayClause(name, type) ==
    <<" The bird is celebrating the \"", name, "\" ", Lower(type),
      " with various decorations and apparel.">>

generate_prompt_any_row(nowdt, base_ok, holidays_ok, table, pick, file) ==
    LET today == Strftime(nowdt)
        matches == Matches(table, today)
        chosen == table[pick]
        updated_prompt ==
            IF matches # <<>>
            THEN BasePrompt \o HolidayClause(chosen.Name, chosen.Type)
            ELSE BasePrompt
        raised(e) == [outcome |-> e, prompt |-> <<>>, holiday_name |-> None, file |-> file]
    IN IF ~base_ok THEN raised("SystemExit(1)")
       ELSE IF ~holidays_ok THEN raised("SystemExit(1)")
       ELSE IF matches # <<>> /\ chosen.Type = None THEN raised("Exception")
       ELSE [outcome |-> "return",
             prompt |-> updated_prompt,
             holiday_name |-> IF matches # <<>> THEN chosen.Name ELSE None,
             file |-> updated_prompt \o <<"\n">>]

generate_prompt_appending(nowdt, base_ok, holidays_ok, table, pick, file) ==
    LET today == Strftime(nowdt)
        matches == Matches(table, today)
        chosen == matches[pick]
        updated_prompt ==
            IF matches # <<>>
            THEN BasePrompt \o HolidayClause(chosen.Name, chosen.Type)
            ELSE BasePrompt
        raised(e) == [outcome |-> e, prompt |-> <<>>, holiday_name |-> None, file |-> file]
    IN IF ~base_ok THEN raised("SystemExit(1)")
       ELSE IF ~holidays_ok THEN raised("SystemExit(1)")
       ELSE IF matches # <<>> /\ chosen.Type = None THEN raised("Exception")
       ELSE [outcome |-> "return",
             prompt |-> updated_prompt,
             holiday_name |-> IF matches # <<>> THEN chosen.Name ELSE None,
             file |-> file \o updated_prompt \o <<"\n">>]

\* generate_prompt(); pick is the index random.choice draws, file the prompt
\* file before the call
generate_prompt(nowdt, base_ok, holidays_ok, table, pick, file) ==
    LET today == Strftime(nowdt)
        matches == Matches(table, today)
        chosen == matches[pick]
        updated_prompt ==
            IF matches # <<>>
            THEN BasePrompt \o HolidayClause(chosen.Name, chosen.Type)
            ELSE BasePrompt
        raised(e) == [outcome |-> e, prompt |-> <<>>, holiday_name |-> None, file |-> file]
    IN IF ~base_ok THEN raised("SystemExit(1)")
       ELSE IF ~holidays_ok THEN raised("SystemExit(1)")
       ELSE IF matches # <<>> /\ chosen.Type = None THEN raised("Exception")
       ELSE [outcome |-> "return",
             prompt |-> updated_prompt,
             holiday_name |-> IF matches # <<>> THEN chosen.Name ELSE None,
             file |-> updated_prompt \o <<"\n">>]

----------------------------------------------------------------------------
(* Image Generator, Publisher, Mailer: the outcome of each for the answer  *)
(* of its service.                                                         *)

ImageServiceAnswers == {"ok", "api_error", "download_error", "bad_status"}
PostingServiceAnswers == {"ok", "error"}
MailAgentAnswers == {"ok", "nonzero_exit", "spawn_error"}

generate_image(answer) == IF answer = "ok" THEN "return" ELSE "Exception"

media_post_unchecked(answer) == "return"

media_post(answer) == IF answer = "ok" THEN "return" ELSE "Exception"

status_post(answer) == IF answer = "ok" THEN "return" ELSE "Exception"

send_email_propagating(answer) == IF answer = "spawn_error" THEN "Exception" ELSE "return"

\* the try/except of send_email catches what Popen and communicate raise
send_email(answer) == "return"

\* lines 218-223
StatusText(name) ==
    IF name # None
    THEN <<"Here's a random floofy-headed bird celebrating \"", name,
           "\" - generated by AI!", "\n#floofy #bird #birds #ai #nature">>
    ELSE <<"Here's a random floofy-headed bird - generated by AI!",
           "\n#floofy #bird #birds #ai #nature">>

EmailBodyText(name) ==
    <<"Here's a random floofy-headed bird celebrating \"", name, "\" - generated by AI!">>

AltText == <<"Here's a random floofy-headed bird - generated by AI!">>

\* one external call: the service, whether it answered with success, the text sent
Call(op, answer, text) == [op |-> op, ok |-> answer = "ok", text |-> text]

----------------------------------------------------------------------------
(* main_loop *)

Caught_bare_except(e) == TRUE

Caught_value_error(e) == e = "ValueError"

\* except Exception (line 240)
Caught(e) == e = "Exception"

\* where control goes when a step of the try block raises e
AfterRaise(e) == IF Caught(e) THEN "handler" ELSE "exited"

\* where control goes after the handler's time.sleep(600)
AfterRetrySleep == "sleep_until"

NoProbe ==
    [op |-> "none", prev |-> "none", old |-> NoFile, file |-> NoFile, at |-> 0,
     target |-> 0, seconds |-> 0, retry |-> FALSE]

HolidayTables ==
    { <<>>,
      << Row(StartDay, "Hat Day", "Holiday"),
         Row(StartDay, "Bird Day", "Observance"),
         Row(StartDay + 1, "Sock Day", None) >>,
      << Row(StartDay + 2, "Sock Day", "Observance"),
         Row(StartDay, "Hat Day", "Holiday") >> }

\* what the prompt file holds when the program starts
PromptFiles == { <<>>, <<"An old prompt.", "\n">> }

StartTimes ==
    { StartDay * TicksPerDay + TargetHour * SubPerHour + d : d \in {-1, 0, 1} }

InitMarkers(t) ==
    { NoFile,
      Text("blank", FALSE, 0, 0, 0),
      Text("junk", FALSE, 0, 0, 0),
      Isoformat(DatetimeNow(t - TicksPerDay)),
      Isoformat(DatetimeNow(t - TicksPerDay + 1)) }

Init ==
    /\ pc = "top"
    /\ now \in StartTimes
    /\ marker \in InitMarkers(now)
    /\ baseExists \in BOOLEAN
    /\ holidaysExists \in BOOLEAN
    /\ holidays \in HolidayTables
    /\ promptFile \in PromptFiles
    /\ image_prompt = <<>>
    /\ holiday_name = None
    /\ exc = "none"
    /\ calls = <<>>
    /\ lastErrAt = -1
    /\ posts = <<-1, -1>>
    /\ probe = NoProbe

env == <<baseExists, holidaysExists, holidays, probe>>

CheckCooldown_clearing ==
    /\ pc = "top"
    /\ pc' = IF should_retry(marker, DatetimeNow(now)) THEN "compose" ELSE "cooldown_sleep"
    /\ marker' = IF should_retry(marker, DatetimeNow(now)) THEN NoFile ELSE marker
    /\ calls' = <<>>
    /\ exc' = "none"
    /\ UNCHANGED <<now, promptFile, image_prompt, holiday_name, lastErrAt, posts, env>>

\* lines 201-206: the cooldown evaluation at the start of an iteration
CheckCooldown ==
    /\ pc = "top"
    /\ pc' = IF should_retry(marker, DatetimeNow(now)) THEN "compose" ELSE "cooldown_sleep"
    /\ calls' = <<>>
    /\ exc' = "none"
    /\ UNCHANGED <<now, marker, promptFile, image_prompt, holiday_name, lastErrAt, posts, env>>

\* line 205: time.sleep(3600), then continue
CooldownSleep ==
    /\ pc = "cooldown_sleep"
    /\ \E t \in SleepEnds(now, HourSeconds) : t <= MaxTime /\ now' = t
    /\ pc' = "top"
    /\ UNCHANGED <<marker, promptFile, image_prompt, holiday_name, exc, calls, lastErrAt, posts, env>>

\* line 212
ComposePrompt ==
    /\ pc = "compose"
    /\ LET n == Len(Matches(holidays, Strftime(DatetimeNow(now))))
       IN \E pick \in 1..(IF n = 0 THEN 1 ELSE n) :
            LET r == generate_prompt(DatetimeNow(now), baseExists, holidaysExists,
                                     holidays, pick, promptFile)
            IN /\ promptFile' = r.file
               /\ image_prompt' = IF r.outcome = "return" THEN r.prompt ELSE image_prompt
               /\ holiday_name' = IF r.outcome = "return" THEN r.holiday_name ELSE holiday_name
               /\ exc' = IF r.outcome = "return" THEN "none" ELSE r.outcome
               /\ pc' = IF r.outcome = "return" THEN "generate" ELSE AfterRaise(r.outcome)
    /\ UNCHANGED <<now, marker, calls, lastErrAt, posts, env>>

\* line 215
GenerateImage ==
    /\ pc = "generate"
    /\ \E answer \in ImageServiceAnswers, d \in 0..MaxCallTicks :
         LET r == generate_image(answer)
         IN /\ now + d <= MaxTime
            /\ now' = now + d
            /\ calls' = Append(calls, Call("images.generate", answer, image_prompt))
            /\ exc' = IF r = "return" THEN "none" ELSE r
            /\ pc' = IF r = "return" THEN "upload" ELSE AfterRaise(r)
    /\ UNCHANGED <<marker, promptFile, image_prompt, holiday_name, lastErrAt, posts, env>>

\* line 142
MediaPost ==
    /\ pc = "upload"
    /\ \E answer \in PostingServiceAnswers :
         LET r == media_post(answer)
         IN /\ calls' = Append(calls, Call("media_post", answer, AltText))
            /\ exc' = IF r = "return" THEN "none" ELSE r
            /\ pc' = IF r = "return" THEN "post" ELSE AfterRaise(r)
    /\ UNCHANGED <<now, marker, promptFile, image_prompt, holiday_name, lastErrAt, posts, env>>

\* line 144
StatusPost ==
    /\ pc = "post"
    /\ \E answer \in PostingServiceAnswers :
         LET r == status_post(answer)
         IN /\ calls' = Append(calls, Call("status_post", answer, StatusText(holiday_name)))
            /\ exc' = IF r = "return" THEN "none" ELSE r
            /\ pc' = IF r = "return" THEN "email" ELSE AfterRaise(r)
            /\ posts' = IF r = "return" THEN <<posts[2], now>> ELSE posts
    /\ UNCHANGED <<now, marker, promptFile, image_prompt, holiday_name, lastErrAt, env>>

\* lines 233-238
SendEmail ==
    /\ pc = "email"
    /\ \E answer \in MailAgentAnswers :
         LET r == send_email(answer)
         IN /\ calls' = Append(calls, Call("send_email", answer, EmailBodyText(holiday_name)))
            /\ exc' = IF r = "return" THEN "none" ELSE r
            /\ pc' = IF r = "return" THEN "sleep_until" ELSE AfterRaise(r)
    /\ UNCHANGED <<now, marker, promptFile, image_prompt, holiday_name, lastErrAt, posts, env>>

HandleFailure_without_record ==
    /\ pc = "handler"
    /\ lastErrAt' = now
    /\ pc' = "retry_sleep"
    /\ UNCHANGED <<now, marker, promptFile, image_prompt, holiday_name, exc, calls, posts, env>>

\* lines 240-242: the handler up to record_error()
HandleFailure ==
    /\ pc = "handler"
    /\ marker' = record_error(DatetimeNow(now))
    /\ lastErrAt' = now
    /\ pc' = "retry_sleep"
    /\ UNCHANGED <<now, promptFile, image_prompt, holiday_name, exc, calls, posts, env>>

\* line 243: time.sleep(600)
RetrySleep ==
    /\ pc = "retry_sleep"
    /\ \E t \in SleepEnds(now, TickSeconds) : t <= MaxTime /\ now' = t
    /\ pc' = AfterRetrySleep
    /\ UNCHANGED <<marker, promptFile, image_prompt, holiday_name, exc, calls, lastErrAt, posts, env>>

\* lines 246-248
SleepUntilNextRun ==
    /\ pc = "sleep_until"
    /\ \E t \in SleepEnds(now, time_until_next_run(DatetimeNow(now), TargetHour)) :
            t <= MaxTime /\ now' = t
    /\ pc' = "top"
    /\ UNCHANGED <<marker, promptFile, image_prompt, holiday_name, exc, calls, lastErrAt, posts, env>>

Next ==
    \/ CheckCooldown
    \/ CooldownSleep
    \/ ComposePrompt
    \/ GenerateImage
    \/ MediaPost
    \/ StatusPost
    \/ SendEmail
    \/ HandleFailure
    \/ RetrySleep
    \/ SleepUntilNextRun

Spec == Init /\ [][Next]_vars

\* main_loop is one thread that never waits for anything but its own sleeps:
\* whenever a step is possible one is taken
SpecFair == Spec /\ WF_vars(Next)

----------------------------------------------------------------------------
(* Static mode: the prompt is read from PROMPT_FILE by load_prompt_from_file *)
(* instead of being composed.  The function is the program's; the iteration *)
(* that calls it follows the specification's description of static mode.    *)

\* what open() and read() of the prompt file answer
FileAnswers == {"ok", "missing", "unreadable"}

\* str.strip() of a text that ends with a newline
StripText(text) ==
    IF text # <<>> /\ text[Len(text)] = "\n" THEN SubSeq(text, 1, Len(text) - 1) ELSE text

load_prompt_from_file_raising(answer, file) ==
    IF answer = "ok"
    THEN [outcome |-> "return", is_none |-> FALSE, prompt |-> StripText(file)]
    ELSE [outcome |-> "Exception", is_none |-> FALSE, prompt |-> <<>>]

\* load_prompt_from_file(file_path): None when the file cannot be opened or read
load_prompt_from_file(answer, file) ==
    IF answer = "ok"
    THEN [outcome |-> "return", is_none |-> FALSE, prompt |-> StripText(file)]
    ELSE [outcome |-> "return", is_none |-> TRUE, prompt |-> <<>>]

\* the short sleep after an unreadable prompt; shorter than a tick of the clock
SkipSeconds == 60

InitStatic ==
    /\ pc = "top"
    /\ now = MaxTime - 2 * TicksPerDay + TargetHour * SubPerHour
    /\ marker \in {NoFile, Isoformat(DatetimeNow(now - TicksPerDay + 1))}
    /\ baseExists = TRUE
    /\ holidaysExists = TRUE
    /\ holidays = <<>>
    /\ promptFile = <<"A bird.", "\n">>
    /\ image_prompt = <<>>
    /\ holiday_name = None
    /\ exc = "none"
    /\ calls = <<>>
    /\ lastErrAt = -1
    /\ posts = <<-1, -1>>
    /\ probe = NoProbe

\* step 2 of the iteration in static mode
StaticLoadPrompt ==
    /\ pc = "compose"
    /\ \E answer \in FileAnswers :
         LET r == load_prompt_from_file(answer, promptFile)
         IN /\ calls' = Append(calls, Call("open_prompt", answer, <<>>))
            /\ exc' = IF r.outcome = "return" THEN "none" ELSE r.outcome
            /\ pc' = IF r.outcome # "return" THEN AfterRaise(r.outcome)
                     ELSE IF r.is_none THEN "skip_sleep"
                     ELSE "generate"
            /\ image_prompt' = IF r.outcome = "return" /\ ~r.is_none THEN r.prompt ELSE image_prompt
    /\ UNCHANGED <<now, marker, promptFile, holiday_name, lastErrAt, posts, env>>

\* the short sleep of a skipped cycle, then the next iteration
SkipSleep ==
    /\ pc = "skip_sleep"
    /\ \E t \in SleepEnds(now, SkipSeconds) : t <= MaxTime /\ now' = t
    /\ pc' = "top"
    /\ UNCHANGED <<marker, promptFile, image_prompt, holiday_name, exc, calls, lastErrAt, posts, env>>

NextStatic ==
    \/ CheckCooldown
    \/ CooldownSleep
    \/ StaticLoadPrompt
    \/ SkipSleep
    \/ GenerateImage
    \/ MediaPost
    \/ StatusPost
    \/ SendEmail
    \/ HandleFailure
    \/ RetrySleep
    \/ SleepUntilNextRun

SpecStatic == InitStatic /\ [][NextStatic]_vars

----------------------------------------------------------------------------
(* The functions of the Failure Cooldown and the Time Gate called directly, *)
(* on any marker file and at any clock value, as a test would call them.    *)

\* what the marker file may hold before a call
MarkerInputs ==
    {NoFile}
    \cup { Text(kind, pad, 0, 0, 0) : kind \in {"blank", "junk"}, pad \in BOOLEAN }
    \cup { Text("iso", pad, day, hour, sub) :
              pad \in BOOLEAN, day \in (StartDay - 1)..(StartDay + 1),
              hour \in {0, TargetHour, HoursPerDay - 1, HoursPerDay},
              sub \in {0, SubPerHour - 1} }

InitDirect ==
    /\ pc = "direct"
    /\ now = StartDay * TicksPerDay
    /\ baseExists = TRUE
    /\ holidaysExists = TRUE
    /\ holidays = <<>>
    /\ promptFile = <<>>
    /\ image_prompt = <<>>
    /\ holiday_name = None
    /\ exc = "none"
    /\ calls = <<>>
    /\ lastErrAt = -1
    /\ posts = <<-1, -1>>
    /\ probe = NoProbe

InitCooldown == InitDirect /\ marker \in MarkerInputs

InitGate == InitDirect /\ marker = NoFile

rest == <<pc, baseExists, holidaysExists, holidays, promptFile, image_prompt,
          holiday_name, exc, calls, lastErrAt, posts>>

\* the clock advances between two calls
ClockTick ==
    /\ pc = "direct"
    /\ now < MaxTime
    /\ now' = now + 1
    /\ probe' = [NoProbe EXCEPT !.op = "tick"]
    /\ UNCHANGED <<marker, rest>>

CallShouldRetry ==
    /\ pc = "direct"
    /\ probe' = [NoProbe EXCEPT !.prev = probe.op, !.op = "should_retry",
                              !.old = IF probe.op = "record_error" THEN probe.old ELSE NoFile,
                              !.file = marker, !.at = now,
                              !.retry = should_retry(marker, DatetimeNow(now))]
    /\ UNCHANGED <<now, marker, rest>>

\* the write ends d ticks after datetime.now() was read
CallRecordError ==
    /\ pc = "direct"
    /\ \E d \in 0..MaxCallTicks :
         /\ now + d <= MaxTime
         /\ now' = now + d
    /\ marker' = record_error(DatetimeNow(now))
    /\ probe' = [NoProbe EXCEPT !.prev = probe.op, !.op = "record_error",
                              !.old = marker, !.at = now]
    /\ UNCHANGED rest

CallTimeUntilNextRun ==
    /\ pc = "direct"
    /\ \E target_hour \in 0..(HoursPerDay - 1) :
         probe' = [NoProbe EXCEPT !.op = "time_until_next_run",
                                !.at = now, !.target = target_hour,
                                !.seconds = time_until_next_run(DatetimeNow(now), target_hour)]
    /\ UNCHANGED <<now, marker, rest>>

NextCooldown ==
    \/ ClockTick
    \/ CallShouldRetry
    \/ CallRecordError

SpecCooldown == InitCooldown /\ [][NextCooldown]_vars

NextGate ==
    \/ ClockTick
    \/ CallTimeUntilNextRun

SpecGate == InitGate /\ [][NextGate]_vars

----------------------------------------------------------------------------
(* Claims *)

\* the clock value a marker text names
MarkerTicks(m) == (m.day * HoursPerDay + m.hour) * SubPerHour + m.sub

\* the marker holds the timestamp of clock value t, as record_error writes it
MarkerIs(t) ==
    marker.exists /\ marker.kind = "iso" /\ ~marker.pad /\ MarkerTicks(marker) = t

Ops(s) == { s[i].op : i \in 1..Len(s) }

GenerationFailed ==
    \E i \in 1..Len(calls) : calls[i].op = "images.generate" /\ ~calls[i].ok

\* C1: in an iteration whose image generation (the service call or the download)
\* raised, the handler overwrites the error marker with the timestamp of that
\* moment, and the iteration makes no media upload, no status post and sends no
\* email.
C1_GenerationFailure ==
    GenerationFailed =>
        /\ Ops(calls) = {"images.generate"}
        /\ pc \in {"handler", "retry_sleep", "sleep_until", "top"}
        /\ pc = "retry_sleep" => MarkerIs(now)
        /\ pc \in {"retry_sleep", "sleep_until", "top"} => MarkerIs(lastErrAt)

C1_Witness ==
    GenerationFailed /\ pc = "sleep_until" /\ MarkerIs(lastErrAt)

\* C2: within an iteration the status post is attempted only right after a
\* media upload that succeeded, and the email only right after a status post
\* that succeeded; a failed upload or a failed post is the iteration's last call.
C2_StepOrder ==
    \A i \in 1..Len(calls) :
        /\ calls[i].op = "status_post" =>
              i > 1 /\ calls[i-1].op = "media_post" /\ calls[i-1].ok
        /\ calls[i].op = "send_email" =>
              i > 1 /\ calls[i-1].op = "status_post" /\ calls[i-1].ok
        /\ calls[i].op \in {"media_post", "status_post"} /\ ~calls[i].ok => i = Len(calls)

C2_Witness ==
    /\ Len(calls) = 3
    /\ calls[2].op = "media_post" /\ calls[2].ok
    /\ calls[3].op = "status_post" /\ ~calls[3].ok
    /\ pc = "sleep_until"

\* C3: whatever the mail transfer agent answers (success, a non-zero exit, a
\* failure to spawn it), the step after send_email is the sleep until the next
\* target hour: no exception is in flight, the handler is not entered and the
\* error marker is unchanged.
C3_MailFailureAbsorbed ==
    [][pc = "email" =>
          /\ pc' = "sleep_until"
          /\ exc' = "none"
          /\ marker' = marker
          /\ lastErrAt' = lastErrAt]_vars

C3_Witness ==
    /\ pc = "sleep_until"
    /\ calls # <<>>
    /\ calls[Len(calls)].op = "send_email"
    /\ ~calls[Len(calls)].ok

\* C4: after the handler's record_error and its 10-minute sleep the loop restarts
\* the iteration at the cooldown evaluation.
C4_RetryRestartsIteration ==
    [][/\ pc = "handler" => pc' = "retry_sleep" /\ MarkerIs(now)'
       /\ pc = "retry_sleep" =>
             pc' = "top" /\ now' >= now + 600 \div TickSeconds]_vars

\* the marker holds a text that parses as a timestamp
Parsable(m) == m.exists /\ m.kind = "iso" /\ m.hour < HoursPerDay /\ m.sub < SubPerHour

\* the marker's timestamp lies less than 24 hours before the clock
MarkerFresh ==
    Parsable(marker) /\ MarkerTicks(marker) <= now /\ now - MarkerTicks(marker) < TicksPerDay

\* C5: an iteration that starts while the marker holds a timestamp less than 24
\* hours old composes, generates, publishes and mails nothing: it sleeps an hour
\* and evaluates the cooldown again; and no image-generation request is issued
\* less than 24 hours after a record_error.
C5_NoCycleDuringCooldown ==
    [][/\ pc = "top" /\ MarkerFresh =>
             pc' = "cooldown_sleep" /\ calls' = <<>> /\ promptFile' = promptFile
       /\ pc = "cooldown_sleep" =>
             /\ pc' = "top"
             /\ now' >= now + HourSeconds \div TickSeconds
             /\ calls' = <<>> /\ promptFile' = promptFile /\ marker' = marker
       /\ pc = "generate" /\ lastErrAt # -1 => now >= lastErrAt + TicksPerDay]_vars

C5_Witness ==
    pc = "cooldown_sleep" /\ MarkerFresh /\ lastErrAt # -1 /\ MarkerIs(lastErrAt)

\* a cycle that starts once the cooldown of a recorded failure has expired
RetryAfterCooldown ==
    pc = "generate" /\ lastErrAt # -1 /\ MarkerIs(lastErrAt)

\* the first instant after clock value t at which the local time is the target
\* hour, minute 0, second 0
NextTargetAfter(t) ==
    LET today == (t \div TicksPerDay) * TicksPerDay + TargetHour * SubPerHour
    IN IF t < today THEN today ELSE today + TicksPerDay

\* C6: after the email step of a successful cycle the loop sleeps until the next
\* target hour before it evaluates the cooldown again, and between two
\* successful status posts lies at least one target-hour instant.
C6_OnePublishPerDay ==
    [][/\ pc = "email" => pc' = "sleep_until"
       /\ pc = "sleep_until" => pc' = "top" /\ now' >= NextTargetAfter(now)
       /\ posts'[1] # -1 => NextTargetAfter(posts'[1]) <= posts'[2]]_vars

C6_Witness ==
    posts[1] # -1 /\ pc = "top" /\ Ops(calls) = {"images.generate", "media_post", "status_post", "send_email"}

\* C7: when the base prompt file or the holiday table file is missing at
\* composition the process exits with status 1: the handler is not entered, the
\* marker is not written, nothing is slept and no further step runs.
C7_MissingInputExits ==
    [][/\ pc = "compose" /\ (~baseExists \/ ~holidaysExists) =>
             /\ pc' = "exited" /\ exc' = "SystemExit(1)"
             /\ marker' = marker /\ lastErrAt' = lastErrAt /\ now' = now
             /\ calls' = <<>> /\ promptFile' = promptFile
       /\ pc = "exited" => FALSE]_vars

C7_Witness ==
    pc = "exited" /\ exc = "SystemExit(1)" /\ baseExists /\ ~holidaysExists

\* C8: should_retry returns true when the marker file is absent, when it is empty
\* or holds white space only, and when its content is no timestamp; false when
\* the content is a timestamp less than 24 hours before the clock; true when 24
\* hours or more have passed, exactly 24 hours included.  The call leaves the
\* marker file as it was.
C8_ShouldRetryCases ==
    probe.op = "should_retry" =>
        LET f == probe.file
            age == probe.at - MarkerTicks(f)
        IN /\ ~f.exists => probe.retry
           /\ f.exists /\ f.kind = "blank" => probe.retry
           /\ f.exists /\ f.kind # "blank" /\ ~Parsable(f) => probe.retry
           /\ Parsable(f) /\ 0 <= age /\ age < TicksPerDay => ~probe.retry
           /\ Parsable(f) /\ age >= TicksPerDay => probe.retry
           /\ marker = f

C8_Witness ==
    /\ probe.op = "should_retry"
    /\ Parsable(probe.file)
    /\ probe.file.pad
    /\ probe.at - MarkerTicks(probe.file) = TicksPerDay
    /\ probe.retry

\* C9: record_error replaces whatever the marker held by the timestamp of the
\* call, and a should_retry that follows it at once returns false.
C9_RecordThenRetry ==
    /\ probe.op = "record_error" => MarkerIs(probe.at)
    /\ probe.op = "should_retry" /\ probe.prev = "record_error" =>
          /\ ~probe.retry
          /\ Parsable(probe.file)
          /\ probe.at - MarkerTicks(probe.file) \in 0..MaxCallTicks

C9_Witness ==
    /\ probe.op = "should_retry"
    /\ probe.prev = "record_error"
    /\ probe.old.exists /\ probe.old.kind = "junk"
    /\ ~probe.retry

\* C10: for every target hour and clock value time_until_next_run returns the
\* seconds from the clock to today's target hour, minute 0, second 0 when the
\* clock is before that instant, and to tomorrow's when it is at or after it;
\* the result is never negative and never more than 24 hours.
C10_TimeUntilNextRun ==
    probe.op = "time_until_next_run" =>
        LET today == (probe.at \div TicksPerDay) * TicksPerDay + probe.target * SubPerHour
        IN /\ probe.at < today => probe.seconds = (today - probe.at) * TickSeconds
           /\ probe.at >= today =>
                 probe.seconds = (today + TicksPerDay - probe.at) * TickSeconds
           /\ probe.seconds >= 0
           /\ probe.seconds <= HoursPerDay * HourSeconds

C10_Witness ==
    /\ probe.op = "time_until_next_run"
    /\ probe.at % TicksPerDay = probe.target * SubPerHour
    /\ probe.target = HoursPerDay - 1
    /\ probe.seconds = HoursPerDay * HourSeconds

\* C11: the process ends only by the exit of the prompt composer on a missing
\* input file; a failure of image generation, media upload or status post
\* enters the handler, a mail failure does not even do that, and from each of
\* them the loop goes on, by its sleeps, to the cooldown evaluation of a new
\* iteration.
C11_NoTerminalState ==
    [][/\ pc' = "exited" => pc = "compose" /\ (~baseExists \/ ~holidaysExists)
       /\ pc \in {"generate", "upload", "post"} /\ ~calls'[Len(calls')].ok => pc' = "handler"
       /\ pc = "handler" => pc' = "retry_sleep"
       /\ pc = "retry_sleep" => pc' = "sleep_until"
       /\ pc = "email" => pc' = "sleep_until"
       /\ pc = "sleep_until" => pc' = "top" /\ calls' = calls
       /\ pc = "top" => pc' \in {"compose", "cooldown_sleep"} /\ calls' = <<>>]_vars

C11_Witness ==
    /\ pc = "top"
    /\ calls # <<>>
    /\ calls[Len(calls)].op = "status_post"
    /\ ~calls[Len(calls)].ok
    /\ lastErrAt # -1

\* the Type column in lower case
LowerCased(type) ==
    IF type = "Holiday" THEN "holiday"
    ELSE IF type = "Observance" THEN "observance"
    ELSE type

\* the indices of the table rows dated with the calendar day of clock value t
RowsDated(t) == { i \in 1..Len(holidays) : holidays[i].Date = t \div TicksPerDay }

\* C12: when rows of the table are dated today, the holiday name generate_prompt
\* returns is the Name of one of them and the prompt is the base prompt followed
\* by the clause with that row's Name and its Type in lower case; when no row is
\* dated today the prompt is the base prompt and the holiday name is none.
C12_HolidaySelection ==
    pc = "generate" =>
        IF RowsDated(now) # {}
        THEN \E i \in RowsDated(now) :
                /\ holiday_name = holidays[i].Name
                /\ image_prompt =
                     <<"A bird.", " The bird is celebrating the \"", holidays[i].Name, "\" ",
                       LowerCased(holidays[i].Type), " with various decorations and apparel.">>
        ELSE image_prompt = <<"A bird.">> /\ holiday_name = None

C12_Witness ==
    /\ pc = "generate"
    /\ Cardinality(RowsDated(now)) = 2
    /\ holiday_name = "Bird Day"

\* a composition on a day for which a table with rows has none
NoRowToday ==
    pc = "generate" /\ holidays # <<>> /\ RowsDated(now) = {} /\ holiday_name = None

\* C14: after a composition that returned, the prompt file holds the returned
\* prompt followed by one newline and nothing else, and the prompt sent to the
\* image service in that iteration is the returned prompt.
C14_PromptFile ==
    /\ pc = "generate" => promptFile = image_prompt \o <<"\n">>
    /\ \A i \in 1..Len(calls) :
          calls[i].op = "images.generate" =>
              calls[i].text = image_prompt /\ promptFile = calls[i].text \o <<"\n">>

\* the second day's composition, without a holiday, has replaced the first
\* day's prompt with its holiday clause
C14_Witness ==
    /\ now \div TicksPerDay = StartDay + 1
    /\ holidays # <<>>
    /\ RowsDated(now) = {}
    /\ calls # <<>>
    /\ calls[1].op = "images.generate"
    /\ promptFile = <<"A bird.", "\n">>

\* C15: only the failure handler writes the error marker, and it writes the
\* timestamp of that moment; every other step of the loop (the cooldown
\* evaluation, the cooldown wait, a successful cycle, a failed mail delivery)
\* leaves it as it is, the file is never removed, and a recorded failure keeps
\* its timestamp until the next failure.
C15_MarkerOnlyByHandler ==
    [][/\ marker' # marker => pc = "handler" /\ MarkerIs(now)'
       /\ marker.exists => marker'.exists
       /\ lastErrAt' # -1 => MarkerIs(lastErrAt)']_vars

C15_Witness ==
    /\ pc = "sleep_until"
    /\ calls # <<>>
    /\ calls[Len(calls)].op = "send_email"
    /\ ~calls[Len(calls)].ok
    /\ lastErrAt # -1
    /\ MarkerIs(lastErrAt)

\* the clock values a failure needs, at most, to see its cooldown end: 24 hours
\* and the sleeps before the re-check that follows them
CooldownHorizon == TicksPerDay + TicksPerDay \div 2

\* C16: a re-check at or after 24 hours from the recorded timestamp finds the
\* cooldown expired and starts a cycle, and after a recorded failure (early
\* enough for the clock of the model to pass its cooldown) the loop does reach
\* that cycle.
C16_CooldownExpires ==
    /\ [][pc = "top" /\ Parsable(marker) /\ now >= MarkerTicks(marker) + TicksPerDay =>
             pc' = "compose"]_vars
    /\ (pc = "retry_sleep" /\ lastErrAt + CooldownHorizon <= MaxTime)
          ~> (pc = "compose" /\ MarkerIs(lastErrAt) /\ now >= lastErrAt + TicksPerDay)

\* a cycle started by an hourly re-check, after the wake-up at the target hour
\* had still found the cooldown running
C16_Witness ==
    /\ pc = "compose"
    /\ lastErrAt # -1
    /\ MarkerIs(lastErrAt)
    /\ now >= lastErrAt + TicksPerDay
    /\ now % TicksPerDay >= (TargetHour + 1) * SubPerHour

\* the text has the clause that says what the bird is celebrating
HasCelebrating(text) ==
    \E j \in 1..Len(text) : text[j] = "Here's a random floofy-headed bird celebrating \""

\* the text names the holiday of the iteration when there is one, and has no
\* celebrating clause when there is none
AgreesWithComposer(text) ==
    IF holiday_name # None
    THEN HasCelebrating(text) /\ \E j \in 1..Len(text) : text[j] = holiday_name
    ELSE ~HasCelebrating(text)

\* C17: the status text and the email body of an iteration both name the
\* holiday the composer returned, and neither has a celebrating clause when
\* the composer returned none.
C17_TextsAgreeOnHoliday ==
    \A i \in 1..Len(calls) :
        calls[i].op \in {"status_post", "send_email"} => AgreesWithComposer(calls[i].text)

====
